---- MODULE Spec2Model ----
(***************************************************************************)
(* Race-entry extraction, history extraction, scoring and ranking of the   *)
(* two pipelines app.py (GUI) and scrape_and_predict.py (CLI), and the     *)
(* main function that runs them in sequence over the fetched pages.        *)
(*                                                                         *)
(* Arithmetic.  Python floats are modelled by exact integer arithmetic:    *)
(*   - a sub-score is an integer number of hundredths of a point;          *)
(*   - a composite score is an integer number of 1/10000 of a point        *)
(*     (hundredths of a point times a weight in hundredths), so the        *)
(*     weighted sum is exact;                                              *)
(*   - odds and weight-to-carry are integer tenths;                        *)
(*   - a normalized score and a win probability are exact fractions        *)
(*     <<numerator, denominator>>;                                         *)
(*   - math.exp, math.log and the square root of statistics.stdev are      *)
(*     evaluated in fixed point by their series.                           *)
(* Cell texts are sequences of one-character strings.                      *)
(***************************************************************************)
EXTENDS Integers, Sequences, FiniteSets, TLC

VARIABLES
    pc,           \* position of the running pipeline / driver
    variant,      \* "app" (src/app.py) or "cli" (src/scrape_and_predict.py)
    html,         \* the entry document: its tr.HorseList rows
    horse_html,   \* a history document: [table |-> BOOLEAN, rows |-> rows]
    race_info,    \* RaceInfo: [distance, course]
    horses,       \* the entrant list handed to calculate_score / predict
    history,      \* the list returned by parse_horse_history
    score_data,   \* the dict returned by calculate_score
    predictions,  \* the list returned by predict
    fault,        \* "none", or the exception that ended the call
    horse_index,  \* main: index (from 1) of the entrant the history loop is at
    fetched,      \* main: the pages asked for so far, each with its outcome
    assigned      \* main: per entrant, the executions of `horse.results = ...`

vars == <<pc, variant, html, horse_html, race_info, horses, history,
          score_data, predictions, fault, horse_index, fetched,
          assigned>>

(* the variables only main writes *)
main_vars == <<horse_index, fetched, assigned>>

----------------------------------------------------------------------------
(* Integer helpers *)

Max(a, b) == IF a >= b THEN a ELSE b

Min(a, b) == IF a <= b THEN a ELSE b

Abs(a) == IF a >= 0 THEN a ELSE -a

RECURSIVE SumSeq(_)
SumSeq(s) == IF s = <<>> THEN 0 ELSE Head(s) + SumSeq(Tail(s))

RECURSIVE MaxSeq(_)
MaxSeq(s) == IF Len(s) = 1 THEN s[1] ELSE Max(Head(s), MaxSeq(Tail(s)))

RECURSIVE MinSeq(_)
MinSeq(s) == IF Len(s) = 1 THEN s[1] ELSE Min(Head(s), MinSeq(Tail(s)))

MaxInt == 2147483647

(* <<q, r>> with a*n = q*d + r and 0 <= r < d, by long multiplication over
   the digits of n in base b, so that no intermediate value leaves 32 bits
   (a, n >= 0, d > 0, d * (2*b - 1) <= MaxInt, a*n/d <= MaxInt). *)
RECURSIVE MulDivQR(_, _, _, _)
MulDivQR(a, n, d, b) ==
    IF n = 0 THEN <<0, 0>>
    ELSE LET h == MulDivQR(a, n \div b, d, b)
             t == b * h[2] + (a % d) * (n % b)
         IN  <<b * h[1] + (a \div d) * (n % b) + t \div d, t % d>>

(* the largest of the bases 128, 16, 2 that keeps MulDivQR within 32 bits *)
DigitBase(d) ==
    IF d <= MaxInt \div 255 THEN 128
    ELSE IF d <= MaxInt \div 31 THEN 16
    ELSE 2

(* floor(a*n/d) *)
MulDiv(a, n, d) ==
    IF a = 0 \/ n <= MaxInt \div a THEN (a * n) \div d
    ELSE MulDivQR(a, n, d, DigitBase(d))[1]

(* floor(sqrt(v)), by bisection on [lo, hi] *)
RECURSIVE SqrtBetween(_, _, _)
SqrtBetween(v, lo, hi) ==
    IF lo >= hi THEN lo
    ELSE LET mid == (lo + hi + 1) \div 2
         IN  IF mid * mid <= v THEN SqrtBetween(v, mid, hi)
             ELSE SqrtBetween(v, lo, mid - 1)

SqrtMax == 46340

ISqrt(v) == SqrtBetween(v, 0, SqrtMax)

----------------------------------------------------------------------------
(* math.exp and math.log in fixed point *)

ExpOne == 5000000     \* the value of exp(0): results are in units of 1/ExpOne

ExpGuard == 10        \* the series is summed in units of 1/(ExpOne*ExpGuard)

(* sum of the terms term, term*x/k, term*x^2/(k(k+1)), ... with x = num/den *)
RECURSIVE ExpSeries(_, _, _, _)
ExpSeries(term, k, num, den) ==
    IF term = 0 THEN 0
    ELSE term + ExpSeries(MulDiv(term, num, den) \div k, k + 1, num, den)

(* math.exp(num/den), in units of 1/ExpOne *)
Exp(num, den) == ExpSeries(ExpOne * ExpGuard, 1, num, den) \div ExpGuard

LnOne == 1000000      \* logarithms are in units of 1/LnOne

Ln2 == 693147         \* ln 2 in units of 1/LnOne

RECURSIVE Log2Floor(_)
Log2Floor(n) == IF n < 2 THEN 0 ELSE 1 + Log2Floor(n \div 2)

RECURSIVE Pow2(_)
Pow2(k) == IF k = 0 THEN 1 ELSE 2 * Pow2(k - 1)

(* sum of z^j/j + z^(j+2)/(j+2) + ..., zj = z^j and z2 = z^2 in units of 1/LnOne *)
RECURSIVE AtanhSeries(_, _, _)
AtanhSeries(zj, j, z2) ==
    IF zj = 0 THEN 0
    ELSE zj \div j + AtanhSeries(MulDiv(zj, z2, LnOne), j + 2, z2)

(* ln(n) for an integer n >= 1: n = m * 2^k with 1 <= m < 2 and
   ln m = 2 atanh((m-1)/(m+1)) *)
LnNat(n) ==
    LET k  == Log2Floor(n)
        p  == Pow2(k)
        z  == MulDiv(LnOne, n - p, n + p)
        z2 == MulDiv(z, z, LnOne)
    IN  k * Ln2 + 2 * AtanhSeries(z, 1, z2)

OddsUnit == 10        \* odds are held in tenths

(* math.log(odds), odds in tenths, in units of 1/LnOne *)
Log(odds) == LnNat(odds) - LnNat(OddsUnit)

----------------------------------------------------------------------------
(* Texts *)

Digits == {"0", "1", "2", "3", "4", "5", "6", "7", "8", "9"}

(* Characters for which str.isdigit() is true and int() raises ValueError *)
DigitLike == {"sup2"}

DigitValue(c) ==
    CASE c = "0" -> 0 [] c = "1" -> 1 [] c = "2" -> 2 [] c = "3" -> 3
      [] c = "4" -> 4 [] c = "5" -> 5 [] c = "6" -> 6 [] c = "7" -> 7
      [] c = "8" -> 8 [] c = "9" -> 9 [] OTHER -> 0

(* str.isdigit(): non-empty, every character a digit character *)
isdigit(text) ==
    /\ Len(text) > 0
    /\ \A i \in 1..Len(text) : text[i] \in Digits \cup DigitLike

(* whether int(text) returns (else it raises ValueError) *)
IntParses(text) ==
    /\ Len(text) > 0
    /\ \A i \in 1..Len(text) : text[i] \in Digits

(* int(text), for a text that parses *)
RECURSIVE int(_)
int(text) ==
    IF text = <<>> THEN 0
    ELSE 10 * int(SubSeq(text, 1, Len(text) - 1)) + DigitValue(text[Len(text)])

(* a in b, for strings *)
Contains(b, a) ==
    \E i \in 1..(Len(b) + 1) :
        /\ i + Len(a) - 1 <= Len(b)
        /\ SubSeq(b, i, i + Len(a) - 1) = a

----------------------------------------------------------------------------
(* calculate_score *)

RecentWeights == <<35, 25, 20, 12, 8>>      \* weights, in hundredths

Neutral == 5000                             \* the default sub-score 50

Full == 10000                               \* the sub-score 100

(* finish_score counting places from 0 instead of 1 *)
finish_scoreFromZero(finish) == Max(0, 100 - finish * 12)

(* max(0, 100 - (r.finish - 1) * 12), in points *)
finish_score(finish) == Max(0, 100 - (finish - 1) * 12)

(* results[:n] *)
Prefix(s, n) == SubSeq(s, 1, Min(n, Len(s)))

RECURSIVE WeightedSum(_, _)
WeightedSum(results, i) ==
    IF i > Len(results) THEN 0
    ELSE (IF i <= Len(RecentWeights)
              THEN finish_score(results[i].finish) * RecentWeights[i]
              ELSE 0)
         + WeightedSum(results, i + 1)

recent_score(results) ==
    IF results # <<>> THEN WeightedSum(Prefix(results, 5), 1) ELSE Neutral

(* sum(1 for r in results if r.finish <= k) *)
CountFinish(results, k) ==
    Cardinality({i \in 1..Len(results) : results[i].finish <= k})

(* sum(1 for r in results if r.finish == 1) *)
CountWins(results) ==
    Cardinality({i \in 1..Len(results) : results[i].finish = 1})

(* basic_score starting from 0 instead of 50 *)
basic_scoreZeroDefault(results) ==
    IF results # <<>>
    THEN (CountWins(results) * 5000 + CountFinish(results, 3) * 5000)
             \div Len(results)
    ELSE 0

basic_score(results) ==
    IF results # <<>>
    THEN (CountWins(results) * 5000 + CountFinish(results, 3) * 5000)
             \div Len(results)
    ELSE Neutral

(* (places / len(runs)) * 100 *)
place_rate_score(runs) == (CountFinish(runs, 3) * Full) \div Len(runs)

distance_score(results, info) ==
    LET near(r) == Abs(r.distance - info.distance) <= 100
        same_dist == SelectSeq(results, near)
    IN  IF results # <<>> /\ info.distance # 0 /\ same_dist # <<>>
        THEN place_rate_score(same_dist)
        ELSE Neutral

course_score(results, info) ==
    LET here(r) == Contains(r.course, info.course)
        same_course == SelectSeq(results, here)
    IN  IF results # <<>> /\ info.course # <<>> /\ same_course # <<>>
        THEN place_rate_score(same_course)
        ELSE Neutral

(* (1 - position * inner_bias) * 100, position = (number-1) / max(total-1, 1) *)
draw_score(horse, info, all_horses) ==
    LET total == Len(all_horses)
        inner_bias == IF info.distance <= 1400 THEN 20 ELSE 10
    IN  IF horse.number # 0 /\ total > 0
        THEN Full - ((horse.number - 1) * inner_bias * 100) \div Max(total - 1, 1)
        ELSE Neutral

(* odds_score giving 0 when the odds are not posted *)
odds_scoreZeroWhenUnknown(horse) ==
    IF horse.odds # 0 /\ horse.odds > 0
    THEN Max(0, Full - (Log(horse.odds) * 18) \div (LnOne \div 100))
    ELSE 0

(* max(0, 100 - math.log(horse.odds) * 18) *)
odds_score(horse) ==
    IF horse.odds # 0 /\ horse.odds > 0
    THEN Max(0, Full - (Log(horse.odds) * 18) \div (LnOne \div 100))
    ELSE Neutral

RECURSIVE SumSquares(_)
SumSquares(s) == IF s = <<>> THEN 0 ELSE Head(s) * Head(s) + SumSquares(Tail(s))

(* statistics.stdev(finishes), in hundredths: the sample standard deviation
   sqrt((n*sum(x^2) - sum(x)^2) / (n*(n-1))) *)
stdev(finishes) ==
    LET n == Len(finishes)
        num == n * SumSquares(finishes) - SumSeq(finishes) * SumSeq(finishes)
    IN  ISqrt(MulDiv(10000, num, n * (n - 1)))

stability_score(results) ==
    IF Len(results) >= 3
    THEN LET first == Prefix(results, 10)
             finishes == [i \in 1..Len(first) |-> first[i].finish]
             std == IF Len(finishes) > 1 THEN stdev(finishes) ELSE 0
         IN  Max(0, Full - std * 12)
    ELSE Neutral

(* 50 - (weight_carry - avg_weight) * 8, clamped to [0, 100] *)
weight_score(horse, all_horses) ==
    LET carried(h) == h.weight_carry > 0
        with == SelectSeq(all_horses, carried)
        weights == [i \in 1..Len(with) |-> with[i].weight_carry]
    IN  IF weights # <<>> /\ horse.weight_carry # 0
        THEN LET n == Len(weights)
                 diff_n == horse.weight_carry * n - SumSeq(weights)
             IN  Max(0, Min(Full, Neutral - (80 * diff_n) \div n))
        ELSE Neutral

(* the eight weights of the composite, in hundredths *)
Weights(v) ==
    IF v = "app"
    THEN [recent |-> 40, basic |-> 15, distance |-> 11, course |-> 8,
          draw |-> 5, odds |-> 10, stability |-> 7, weight |-> 4]
    ELSE [recent |-> 35, basic |-> 15, distance |-> 12, course |-> 8,
          draw |-> 8, odds |-> 10, stability |-> 7, weight |-> 5]

Factors == {"recent", "basic", "distance", "course", "draw", "odds",
            "stability", "weight"}

score_details(horse, info, all_horses) ==
    [recent    |-> recent_score(horse.results),
     basic     |-> basic_score(horse.results),
     distance  |-> distance_score(horse.results, info),
     course    |-> course_score(horse.results, info),
     draw      |-> draw_score(horse, info, all_horses),
     odds      |-> odds_score(horse),
     stability |-> stability_score(horse.results),
     weight    |-> weight_score(horse, all_horses)]

(* total_score: the sum of sub-score * weight, in 1/10000 of a point *)
total_score(d, w) ==
    d.recent * w.recent + d.basic * w.basic + d.distance * w.distance
    + d.course * w.course + d.draw * w.draw + d.odds * w.odds
    + d.stability * w.stability + d.weight * w.weight

(* the dict calculate_score returns *)
ScoreData(d, w) == [total |-> total_score(d, w), details |-> d]

(* calculate_score whose copy in scrape_and_predict.py gives the odds
   sub-score 0 when the odds are not posted *)
calculate_scoreCopiesDiverge(v, horse, info, all_horses) ==
    IF v = "cli"
    THEN ScoreData([score_details(horse, info, all_horses)
                       EXCEPT !.odds = odds_scoreZeroWhenUnknown(horse)],
                   Weights(v))
    ELSE ScoreData(score_details(horse, info, all_horses), Weights(v))

calculate_score(v, horse, info, all_horses) ==
    ScoreData(score_details(horse, info, all_horses), Weights(v))

----------------------------------------------------------------------------
(* predict *)

(* InsertDesc placing p before the entries of equal score: a sort that is
   not stable *)
InsertDescBeforeTies(sorted, p) ==
    LET k == Cardinality({i \in 1..Len(sorted) : sorted[i].score > p.score})
    IN  SubSeq(sorted, 1, k) \o <<p>> \o SubSeq(sorted, k + 1, Len(sorted))

(* place p after every entry whose score is >= p.score: list.sort(key=score,
   reverse=True) is stable, entries of equal score keep their order *)
InsertDesc(sorted, p) ==
    LET k == Cardinality({i \in 1..Len(sorted) : sorted[i].score >= p.score})
    IN  SubSeq(sorted, 1, k) \o <<p>> \o SubSeq(sorted, k + 1, Len(sorted))

RECURSIVE SortDesc(_, _)
SortDesc(sorted, rest) ==
    IF rest = <<>> THEN sorted
    ELSE SortDesc(InsertDesc(sorted, Head(rest)), Tail(rest))

(* the list built by the first loop of predict; 'horse' is the position of
   the Horse object in the input list (the reference the dict holds) *)
Scored(v, hs, info) ==
    [i \in 1..Len(hs) |->
        LET sd == calculate_score(v, hs[i], info, hs)
        IN  [horse |-> i, score |-> sd.total, details |-> sd.details]]

(* Norm measured down from the maximum: the best entrant gets 0 *)
NormFromMax(score, min_s, max_s) ==
    IF max_s > min_s THEN <<max_s - score, max_s - min_s>> ELSE <<1, 2>>

(* Norm with 0 for a field of equal scores *)
NormFlatZero(score, min_s, max_s) ==
    IF max_s > min_s THEN <<score - min_s, max_s - min_s>> ELSE <<0, 1>>

(* Norm dividing by the maximum instead of the range *)
NormOverMax(score, min_s, max_s) ==
    IF max_s > min_s THEN <<score - min_s, max_s>> ELSE <<1, 2>>

(* norm = (score - min_s) / (max_s - min_s) if max_s > min_s else 0.5 *)
Norm(score, min_s, max_s) ==
    IF max_s > min_s THEN <<score - min_s, max_s - min_s>> ELSE <<1, 2>>

(* ExpScore without the exponential: the weight is the normalized score *)
ExpScoreLinear(norm) == MulDiv(ExpOne, norm[1], norm[2])

(* math.exp(norm / temperature), temperature = 0.3 *)
ExpScore(norm) == Exp(10 * norm[1], 3 * norm[2])

(* TotalExp that leaves the first entry out of the sum *)
TotalExpSkipsFirst(exp_scores) == SumSeq(Tail(exp_scores))

(* total_exp = sum(exp_scores) *)
TotalExp(exp_scores) == SumSeq(exp_scores)

EVUnit == 1000        \* expected values are in thousandths

(* ExpectedValue testing only `if odds`: negative odds are multiplied in *)
ExpectedValueTruthyOnly(win_prob, odds) ==
    IF odds # 0
    THEN (IF odds > 0 THEN 1 ELSE -1)
         * MulDiv(win_prob[1], Abs(odds) * (EVUnit \div OddsUnit), win_prob[2])
    ELSE 0

(* win_prob * odds if odds and odds > 0, else 0; in thousandths, rounded
   down *)
ExpectedValue(win_prob, odds) ==
    IF odds # 0 /\ odds > 0
    THEN MulDiv(win_prob[1], odds * (EVUnit \div OddsUnit), win_prob[2])
    ELSE 0

(* the second loop of predict: norm_score is set on every entry *)
Normalized(sorted, min_s, max_s) ==
    [i \in 1..Len(sorted) |->
        [horse |-> sorted[i].horse,
         score |-> sorted[i].score,
         details |-> sorted[i].details,
         norm_score |-> Norm(sorted[i].score, min_s, max_s)]]

(* exp_scores, one per entry, in order *)
ExpScores(normed) == [i \in 1..Len(normed) |-> ExpScore(normed[i].norm_score)]

(* the third loop of predict: win_prob, rank and expected_value are set *)
Forecasts(hs, normed, exp_scores, total_exp) ==
    [i \in 1..Len(normed) |->
        [horse |-> normed[i].horse,
         score |-> normed[i].score,
         details |-> normed[i].details,
         norm_score |-> normed[i].norm_score,
         win_prob |-> <<exp_scores[i], total_exp>>,
         rank |-> i,
         expected_value |->
             ExpectedValue(<<exp_scores[i], total_exp>>, hs[normed[i].horse].odds)]]

Scores(sorted) == [i \in 1..Len(sorted) |-> sorted[i].score]

WithProbabilities(hs, normed, exp_scores) ==
    Forecasts(hs, normed, exp_scores, TotalExp(exp_scores))

WithExpScores(hs, normed) == WithProbabilities(hs, normed, ExpScores(normed))

Ranked(hs, sorted, scores) ==
    WithExpScores(hs, Normalized(sorted, MinSeq(scores), MaxSeq(scores)))

Sorted(hs, sorted) == Ranked(hs, sorted, Scores(sorted))

(* predict, for a non-empty list of horses *)
predict(v, hs, info) == Sorted(hs, SortDesc(<<>>, Scored(v, hs, info)))

----------------------------------------------------------------------------
(* parse_race_page *)

NoCell == <<"<absent>">>      \* select_one(...) returned None

Dashes == <<"-", "-", "-", ".", "-">>        \* '---.-', odds not yet posted

(* Horse(): the fields the modelled operations read *)
NewHorse ==
    [number |-> 0, name |-> <<>>, horse_id |-> <<>>, weight_carry |-> 0,
     odds |-> 0, results |-> <<>>]

AllDigits(text) == \A i \in 1..Len(text) : text[i] \in Digits

(* re.match(r'^(\d{2}\.\d)$', text) *)
WeightMatches(text) ==
    /\ Len(text) = 4
    /\ text[3] = "."
    /\ text[1] \in Digits /\ text[2] \in Digits /\ text[4] \in Digits

(* float(weight_match.group(1)), in tenths *)
WeightValue(text) == int(<<text[1], text[2], text[4]>>)

(* whether float(text) returns, for digits with at most one decimal place
   (any other text of the model raises ValueError) *)
FloatParses(text) ==
    \/ /\ Len(text) >= 1 /\ AllDigits(text)
    \/ /\ Len(text) >= 3
       /\ text[Len(text) - 1] = "."
       /\ AllDigits(SubSeq(text, 1, Len(text) - 2))
       /\ text[Len(text)] \in Digits

(* float(text), in tenths *)
FloatValue(text) ==
    IF AllDigits(text) THEN 10 * int(text)
    ELSE 10 * int(SubSeq(text, 1, Len(text) - 2)) + DigitValue(text[Len(text)])

(* the number read from the Umaban cell; the caller has checked isdigit *)
ParsedNumber(row) ==
    IF row.umaban # NoCell /\ isdigit(row.umaban) THEN int(row.umaban) ELSE 0

(* horse.name = link.get('title', '') or link.get_text(strip=True) *)
ParsedName(row) ==
    IF row.link THEN (IF row.title # <<>> THEN row.title ELSE row.text)
    ELSE <<>>

(* horse_id: the digits of re.search(r'horse/(\d+)', href) *)
ParsedHorseId(row) == IF row.link THEN row.href ELSE <<>>

(* the first cell of the row whose text matches the weight pattern *)
ParsedWeight(row) ==
    IF row.weight # NoCell /\ WeightMatches(row.weight)
    THEN WeightValue(row.weight) ELSE 0

(* try: if odds_text != '---.-': horse.odds = float(odds_text) except: pass *)
ParsedOdds(row) ==
    IF row.odds # NoCell /\ row.odds # Dashes /\ FloatParses(row.odds)
    THEN FloatValue(row.odds) ELSE 0

(* int(text) of the Umaban cell is outside any try: it raises ValueError for
   a text that passes isdigit() and is no decimal number *)
RowRaises(row) ==
    row.umaban # NoCell /\ isdigit(row.umaban) /\ ~IntParses(row.umaban)

(* the Horse built from one tr.HorseList row *)
ParsedHorse(row) ==
    [number |-> ParsedNumber(row), name |-> ParsedName(row),
     horse_id |-> ParsedHorseId(row), weight_carry |-> ParsedWeight(row),
     odds |-> ParsedOdds(row), results |-> <<>>]

(* Keep without the test of the program number *)
KeepAnyNumber(horse) == horse.name # <<>>

(* if horse.name and horse.number > 0: horses.append(horse) *)
Keep(horse) == horse.name # <<>> /\ horse.number > 0

(* the loop over horse_rows: [fault, horses] *)
RECURSIVE ParseRows(_, _)
ParseRows(rows, acc) ==
    IF rows = <<>> THEN [fault |-> "none", horses |-> acc]
    ELSE IF RowRaises(Head(rows)) THEN [fault |-> "ValueError", horses |-> <<>>]
    ELSE ParseRows(Tail(rows),
                   IF Keep(ParsedHorse(Head(rows)))
                   THEN Append(acc, ParsedHorse(Head(rows))) ELSE acc)

parse_race_page(rows) == ParseRows(rows, <<>>)

----------------------------------------------------------------------------
(* parse_horse_history *)

MinCells == 15        \* rows with fewer cells are skipped

HistoryCap == 20      \* results[:20]

Turf == "T"           \* the glyph for turf in a distance cell

Dirt == "D"           \* the glyph for dirt

Jump == "J"           \* the glyph for a jump race

(* re.search(r'([...])(\d{3,4})', dist_text), for a text that starts with
   the surface glyph: the digits matched, <<>> when there is no match *)
DistDigits(text) ==
    IF Len(text) >= 4 /\ text[1] \in {Turf, Dirt, Jump}
          /\ AllDigits(SubSeq(text, 2, 4))
    THEN (IF Len(text) >= 5 /\ text[5] \in Digits
          THEN SubSeq(text, 2, 5) ELSE SubSeq(text, 2, 4))
    ELSE <<>>

(* the RaceResult of a row that passed the finish test *)
ParsedRun(row) ==
    [finish |-> int(row.finish),
     distance |-> IF DistDigits(row.dist) # <<>> THEN int(DistDigits(row.dist))
                  ELSE 0,
     course |-> row.course]

(* RowOutcome without the test of the finish cell *)
RowOutcomeAnyFinish(row) == IF row.cells < MinCells THEN "skip" ELSE "append"

(* what the loop body does with one row: "skip" (fewer than 15 cells, the
   finish cell fails isdigit(), or int() raises and the except continues)
   or "append" *)
RowOutcome(row) ==
    IF row.cells < MinCells THEN "skip"
    ELSE IF ~isdigit(row.finish) THEN "skip"
    ELSE IF ~IntParses(row.finish) THEN "skip"
    ELSE "append"

RECURSIVE HistoryRows(_, _)
HistoryRows(rows, acc) ==
    IF rows = <<>> THEN acc
    ELSE HistoryRows(Tail(rows),
                     IF RowOutcome(Head(rows)) = "append"
                     THEN Append(acc, ParsedRun(Head(rows))) ELSE acc)

(* parse_horse_history cutting the table to its first 20 rows before the
   rows are tested *)
parse_horse_historyCapsRows(doc) ==
    IF ~doc.table THEN <<>>
    ELSE HistoryRows(Prefix(doc.rows, HistoryCap), <<>>)

parse_horse_history(doc) ==
    IF ~doc.table THEN <<>>
    ELSE Prefix(HistoryRows(doc.rows, <<>>), HistoryCap)

----------------------------------------------------------------------------
(* Inputs *)

Variants == {"app", "cli"}

MaxHorses == 3        \* entrants in a field

Tokyo == <<"T", "K">>          \* stands for a venue name of the fixed list

NoRaceInfo == [distance |-> 0, course |-> <<>>]

NoHtml == <<>>

NoHorseHtml == [table |-> FALSE, rows |-> <<>>]

NoScore == [total |-> 0, details |-> <<>>]

(* a run of good recent form over the race's distance and course *)
Form == <<[finish |-> 1, distance |-> 1600, course |-> <<"2", "T", "K", "5">>],
          [finish |-> 4, distance |-> 2000, course |-> <<"1", "N", "Y", "3">>]>>

(* an entrant whose odds cell read as a negative number *)
NegativeOddsHorse ==
    [number |-> 2, name |-> <<"A">>, horse_id |-> <<"7">>,
     weight_carry |-> 550, odds |-> -35, results |-> Form]

(* an entrant without history whose odds are not posted *)
Newcomer ==
    [number |-> 1, name |-> <<"A">>, horse_id |-> <<"7">>,
     weight_carry |-> 550, odds |-> 0, results |-> <<>>]

RankHorses ==
    [number : 1..2, name : {<<"A">>}, horse_id : {<<"7">>},
     weight_carry : {550}, odds : {0, 35}, results : {Form}]
    \cup {Newcomer, NegativeOddsHorse}

RankFields == UNION {[1..n -> RankHorses] : n \in 0..MaxHorses}

RankRaces == {[distance |-> 1600, course |-> Tokyo]}

----------------------------------------------------------------------------
(* The ranking engine applied to any field *)

RankInit ==
    /\ pc = "rank"
    /\ variant \in Variants
    /\ horses \in RankFields
    /\ race_info \in RankRaces
    /\ html = NoHtml
    /\ horse_html = NoHorseHtml
    /\ history = <<>>
    /\ score_data = NoScore
    /\ predictions = <<>>
    /\ fault = "none"
    /\ horse_index = 0
    /\ fetched = <<>>
    /\ assigned = <<>>

(* Predict sorting the caller's list in place, horses.sort(...), next to
   building the list it returns *)
PredictSortsInput ==
    /\ pc = "rank"
    /\ pc' = "ranked"
    /\ IF horses = <<>>
       THEN /\ fault' = "ValueError"
            /\ UNCHANGED <<predictions, horses>>
       ELSE /\ predictions' = predict(variant, horses, race_info)
            /\ horses' = [k \in 1..Len(horses) |->
                             horses[predict(variant, horses, race_info)[k].horse]]
            /\ UNCHANGED fault
    /\ UNCHANGED <<variant, html, horse_html, race_info, history,
                   score_data, main_vars>>

(* predictions = predict(horses, race_info): min(scores) raises ValueError
   when the list is empty *)
Predict ==
    /\ pc = "rank"
    /\ pc' = "ranked"
    /\ IF horses = <<>>
       THEN /\ fault' = "ValueError"
            /\ UNCHANGED predictions
       ELSE /\ predictions' = predict(variant, horses, race_info)
            /\ UNCHANGED fault
    /\ UNCHANGED <<variant, html, horse_html, race_info, horses, history,
                   score_data,
                   main_vars>>

(* a second call, predictions = predict(horses, race_info), on the list the
   first call was given *)
PredictAgain ==
    /\ pc = "ranked"
    /\ fault = "none"
    /\ pc' = "reranked"
    /\ predictions' = predict(variant, horses, race_info)
    /\ UNCHANGED <<variant, html, horse_html, race_info, horses, history,
                   score_data, fault, main_vars>>

RankNext == Predict \/ PredictAgain

SpecRank == RankInit /\ [][RankNext]_vars

----------------------------------------------------------------------------
(* The scoring engine applied to any entrant of any field *)

MaxRuns == 3          \* runs in a history

(* runs the history extractor can emit: finish 0 comes from a finish cell
   "0", distance 0 from a distance cell without a match *)
Runs ==
    {[finish |-> 1, distance |-> 1600, course |-> <<"2", "T", "K", "5">>],
     [finish |-> 3, distance |-> 1200, course |-> <<"1", "N", "Y", "3">>],
     [finish |-> 18, distance |-> 2400, course |-> <<"2", "T", "K", "5">>],
     [finish |-> 0, distance |-> 0, course |-> <<>>]}

Histories == UNION {[1..n -> Runs] : n \in 0..MaxRuns}

(* the history of five runs with finishes 1, 2, 1, 3, 2 *)
ExampleFinishes == <<1, 2, 1, 3, 2>>

ExampleHistory ==
    [k \in 1..Len(ExampleFinishes) |->
        [finish |-> ExampleFinishes[k], distance |-> 1800,
         course |-> <<"1", "N", "Y", "3">>]]

(* entrants the entry extractor can emit: number >= 1, odds a float >= 0,
   weight 0 or a two-digit number with one decimal *)
ScoreHorses ==
    [number : {1, 7}, name : {<<"A">>}, horse_id : {<<"7">>},
     weight_carry : {0, 550}, odds : {0, 5, 27},
     results : Histories \cup {ExampleHistory}]

(* the rest of the field: calculate_score reads its size and its weights *)
Rival ==
    [number |-> 2, name |-> <<"B">>, horse_id |-> <<>>, weight_carry |-> 570,
     odds |-> 0, results |-> <<>>]

Rivals == {[i \in 1..n |-> Rival] : n \in 0..(MaxHorses - 1)}

ScoreRaces ==
    {[distance |-> 1200, course |-> Tokyo],
     [distance |-> 1600, course |-> <<>>],
     [distance |-> 0, course |-> Tokyo]}

ScoreInit ==
    /\ pc = "score"
    /\ variant \in Variants
    /\ \E h \in ScoreHorses, rs \in Rivals : horses = <<h>> \o rs
    /\ race_info \in ScoreRaces
    /\ html = NoHtml
    /\ horse_html = NoHorseHtml
    /\ history = <<>>
    /\ score_data = NoScore
    /\ predictions = <<>>
    /\ fault = "none"
    /\ horse_index = 0
    /\ fetched = <<>>
    /\ assigned = <<>>

(* score_data = calculate_score(horses[0], race_info, horses) *)
CalculateScore ==
    /\ pc = "score"
    /\ pc' = "scored"
    /\ score_data' = calculate_score(variant, horses[1], race_info, horses)
    /\ UNCHANGED <<variant, html, horse_html, race_info, horses, history,
                   predictions, fault,
                   main_vars>>

ScoreNext == CalculateScore

SpecScore == ScoreInit /\ [][ScoreNext]_vars

----------------------------------------------------------------------------
(* The entry extractor applied to any document *)

MaxRows == 2          \* tr.HorseList rows in an entry document

UmabanCells == {NoCell, <<"0">>, <<"1">>, <<"2">>, <<"x">>, <<"sup2">>}

NameLinks ==
    {[link |-> FALSE, title |-> <<>>, text |-> <<>>, href |-> <<>>],
     [link |-> TRUE, title |-> <<"A">>, text |-> <<"a">>, href |-> <<"7">>],
     [link |-> TRUE, title |-> <<>>, text |-> <<"B">>, href |-> <<>>],
     [link |-> TRUE, title |-> <<>>, text |-> <<>>, href |-> <<"9">>]}

OtherCells ==
    {[weight |-> NoCell, odds |-> Dashes],
     [weight |-> <<"5", "5", ".", "0">>, odds |-> <<"3", ".", "5">>]}

EntryRows ==
    {[umaban |-> u, link |-> n.link, title |-> n.title, text |-> n.text,
      href |-> n.href, weight |-> o.weight, odds |-> o.odds] :
        u \in UmabanCells, n \in NameLinks, o \in OtherCells}

EntryDocuments == UNION {[1..n -> EntryRows] : n \in 0..MaxRows}

EntryInit ==
    /\ pc = "entry"
    /\ variant \in Variants
    /\ html \in EntryDocuments
    /\ race_info = NoRaceInfo
    /\ horse_html = NoHorseHtml
    /\ horses = <<>>
    /\ history = <<>>
    /\ score_data = NoScore
    /\ predictions = <<>>
    /\ fault = "none"
    /\ horse_index = 0
    /\ fetched = <<>>
    /\ assigned = <<>>

(* race_info, horses = parse_race_page(html, race_id) *)
ParseRacePage ==
    /\ pc = "entry"
    /\ pc' = "parsed"
    /\ LET r == parse_race_page(html)
       IN  /\ fault' = r.fault
           /\ horses' = r.horses
    /\ UNCHANGED <<variant, html, horse_html, race_info, history, score_data,
                   predictions,
                   main_vars>>

EntryNext == ParseRacePage

SpecEntry == EntryInit /\ [][EntryNext]_vars

----------------------------------------------------------------------------
(* The history extractor applied to any document *)

MaxSegments == 2      \* runs of equal rows in a history document

Repeats == {1, HistoryCap + 1}    \* lengths of a run of equal rows

FinishCells == {<<"1">>, <<"4">>, <<"1", "0">>, <<>>, <<"X">>, <<"sup2">>}

(* rows of the results table; "X" stands for a non-numeric finish such as
   the marks for disqualified, withdrawn or stopped *)
HistoryRowSet ==
    {[cells |-> c, finish |-> f,
      dist |-> IF f = <<"4">> THEN <<Dirt, "1", "2", "0", "0">>
               ELSE <<Turf, "1", "6", "0", "0">>,
      course |-> <<"2", "T", "K", "5">>] :
        c \in {MinCells - 1, MinCells}, f \in FinishCells}

Segments == [row : HistoryRowSet, times : Repeats]

RECURSIVE Expand(_)
Expand(segs) ==
    IF segs = <<>> THEN <<>>
    ELSE [i \in 1..Head(segs).times |-> Head(segs).row] \o Expand(Tail(segs))

HistoryDocuments ==
    {[table |-> FALSE, rows |-> <<>>]}
    \cup {[table |-> TRUE, rows |-> Expand(segs)] :
            segs \in UNION {[1..n -> Segments] : n \in 0..MaxSegments}}

HistoryInit ==
    /\ pc = "history"
    /\ variant \in Variants
    /\ horse_html \in HistoryDocuments
    /\ html = NoHtml
    /\ race_info = NoRaceInfo
    /\ horses = <<>>
    /\ history = <<>>
    /\ score_data = NoScore
    /\ predictions = <<>>
    /\ fault = "none"
    /\ horse_index = 0
    /\ fetched = <<>>
    /\ assigned = <<>>

(* history = parse_horse_history(horse_html) *)
ParseHorseHistory ==
    /\ pc = "history"
    /\ pc' = "extracted"
    /\ history' = parse_horse_history(horse_html)
    /\ UNCHANGED <<variant, html, horse_html, race_info, horses, score_data,
                   predictions, fault,
                   main_vars>>

HistoryNext == ParseHorseHistory

SpecHistory == HistoryInit /\ [][HistoryNext]_vars

----------------------------------------------------------------------------
(* main: the orchestrator of either pipeline *)

(* entry rows of the pages main is given: two entrants with a history page,
   a newcomer without an identifier, a decorative row, and a row whose
   Umaban cell passes isdigit() but not int() *)
MainRow(umaban, title, href) ==
    [umaban |-> umaban, link |-> TRUE, title |-> title, text |-> <<>>,
     href |-> href, weight |-> <<"5", "5", ".", "0">>,
     odds |-> <<"3", ".", "5">>]

MainRows ==
    {MainRow(<<"1">>, <<"A">>, <<"7">>), MainRow(<<"2">>, <<"B">>, <<"9">>),
     MainRow(<<"3">>, <<"C">>, <<>>), MainRow(<<"0">>, <<"D">>, <<"5">>),
     MainRow(<<"sup2">>, <<"E">>, <<"6">>)}

MainDocuments == UNION {[1..n -> MainRows] : n \in 0..MaxRows}

(* history pages: one without a results table, one of a disqualified and a
   clean run, one of two clean runs *)
CleanRow(finish) ==
    [cells |-> MinCells, finish |-> finish,
     dist |-> <<Turf, "1", "6", "0", "0">>, course |-> <<"2", "T", "K", "5">>]

HorsePages ==
    {[table |-> FALSE, rows |-> <<>>],
     [table |-> TRUE, rows |-> <<CleanRow(<<"X">>), CleanRow(<<"1">>)>>],
     [table |-> TRUE, rows |-> <<CleanRow(<<"4">>), CleanRow(<<"1">>)>>]}

(* one entry of the log of pages asked for: the entry page ("race"), the
   file debug_shutuba.html ("file") or the history page of entrant `horse`;
   ok is the truth value of what came back (None and '' are false) and doc
   the history document that came back *)
Fetched(page, horse, ok, doc) ==
    [page |-> page, horse |-> horse, ok |-> ok, doc |-> doc]

MainInit ==
    /\ pc = "main"
    /\ variant \in Variants
    /\ race_info \in RankRaces
    /\ html = NoHtml
    /\ horse_html = NoHorseHtml
    /\ horses = <<>>
    /\ history = <<>>
    /\ score_data = NoScore
    /\ predictions = <<>>
    /\ fault = "none"
    /\ horse_index = 0
    /\ fetched = <<>>
    /\ assigned = <<>>

(* where main goes after fetch_race_page, without the test of its result *)
AfterRacePageUnchecked(v, ok) == "entry"

(* where main goes after fetch_race_page: `if not html:` returns in app.py
   and tries the file debug_shutuba.html in scrape_and_predict.py *)
AfterRacePage(v, ok) ==
    IF ok THEN "entry" ELSE IF v = "app" THEN "returned" ELSE "fallback"

(* html = fetch_race_page(race_id) *)
FetchRacePage ==
    /\ pc = "main"
    /\ \E ok \in BOOLEAN, doc \in MainDocuments :
          /\ fetched' = Append(fetched, Fetched("race", 0, ok, NoHorseHtml))
          /\ html' = IF ok THEN doc ELSE NoHtml
          /\ pc' = AfterRacePage(variant, ok)
    /\ UNCHANGED <<variant, horse_html, race_info, horses, history,
                   score_data, predictions, fault, horse_index, assigned>>

(* scrape_and_predict.py: html = open('debug_shutuba.html').read(), and
   return when that raises *)
OpenDebugFile ==
    /\ pc = "fallback"
    /\ \E ok \in BOOLEAN, doc \in MainDocuments :
          /\ fetched' = Append(fetched, Fetched("file", 0, ok, NoHorseHtml))
          /\ html' = IF ok THEN doc ELSE NoHtml
          /\ pc' = IF ok THEN "entry" ELSE "returned"
    /\ UNCHANGED <<variant, horse_html, race_info, horses, history,
                   score_data, predictions, fault, horse_index, assigned>>

(* after parse_race_page: an exception ends main, `if not horses:` returns,
   otherwise the history loop starts at the first entrant *)
CheckHorses ==
    /\ pc = "parsed"
    /\ IF fault # "none"
       THEN pc' = "crashed" /\ UNCHANGED <<horse_index, assigned>>
       ELSE IF horses = <<>>
       THEN pc' = "returned" /\ UNCHANGED <<horse_index, assigned>>
       ELSE /\ pc' = "loop"
            /\ horse_index' = 1
            /\ assigned' = [k \in 1..Len(horses) |-> 0]
    /\ UNCHANGED <<variant, html, horse_html, race_info, horses, history,
                   score_data, predictions, fault, fetched>>

(* the position after the loop body of entrant k: the next entrant, or
   predict after the last one *)
AfterHorse(k, hs) == IF k + 1 > Len(hs) THEN "rank" ELSE "loop"

(* main giving up the race when a history page is absent *)
AfterHorsePageAbsentReturns(k, hs, ok) ==
    IF ok THEN "history" ELSE "returned"

(* where main goes after fetch_horse_page: `if horse_html:` *)
AfterHorsePage(k, hs, ok) == IF ok THEN "history" ELSE AfterHorse(k, hs)

(* `if horse.horse_id:` horse_html = fetch_horse_page(horse.horse_id) *)
FetchHorsePage ==
    /\ pc = "loop"
    /\ horses[horse_index].horse_id # <<>>
    /\ \E ok \in BOOLEAN, doc \in HorsePages :
          /\ fetched' = Append(fetched,
                               Fetched("horse", horse_index, ok,
                                       IF ok THEN doc ELSE NoHorseHtml))
          /\ horse_html' = IF ok THEN doc ELSE NoHorseHtml
          /\ pc' = AfterHorsePage(horse_index, horses, ok)
          /\ horse_index' = IF ok THEN horse_index ELSE horse_index + 1
    /\ UNCHANGED <<variant, html, race_info, horses, history, score_data,
                   predictions, fault, assigned>>

(* an entrant without horse_id: the loop body does nothing *)
SkipHorse ==
    /\ pc = "loop"
    /\ horses[horse_index].horse_id = <<>>
    /\ pc' = AfterHorse(horse_index, horses)
    /\ horse_index' = horse_index + 1
    /\ UNCHANGED <<variant, html, horse_html, race_info, horses, history,
                   score_data, predictions, fault, fetched, assigned>>

(* the assignment made to the first entrant instead of the current one *)
AttachHistoryToFirst ==
    /\ pc = "extracted"
    /\ horses' = [horses EXCEPT ![1].results = history]
    /\ assigned' = [assigned EXCEPT ![1] = @ + 1]
    /\ pc' = AfterHorse(horse_index, horses)
    /\ horse_index' = horse_index + 1
    /\ UNCHANGED <<variant, html, horse_html, race_info, history, score_data,
                   predictions, fault, fetched>>

(* horse.results = <the list parse_horse_history returned> *)
AttachHistory ==
    /\ pc = "extracted"
    /\ horses' = [horses EXCEPT ![horse_index].results = history]
    /\ assigned' = [assigned EXCEPT ![horse_index] = @ + 1]
    /\ pc' = AfterHorse(horse_index, horses)
    /\ horse_index' = horse_index + 1
    /\ UNCHANGED <<variant, html, horse_html, race_info, history, score_data,
                   predictions, fault, fetched>>

(* the steps of main other than the call of predict *)
MainSteps ==
    \/ FetchRacePage
    \/ OpenDebugFile
    \/ ParseRacePage
    \/ CheckHorses
    \/ FetchHorsePage
    \/ SkipHorse
    \/ ParseHorseHistory
    \/ AttachHistory

MainNext == MainSteps \/ Predict

SpecMain == MainInit /\ [][MainNext]_vars

(* the call of predict returns or raises: main leaves "rank" *)
PredictReturns == pc = "rank" /\ pc' = "ranked"

(* main is a sequential program that runs to its end: a step that can be
   taken is taken, and a call of predict comes back *)
FairMain == SpecMain /\ WF_vars(MainSteps) /\ WF_pc(PredictReturns)

----------------------------------------------------------------------------
(* Properties of the ranking engine (SpecRank) *)

Returned == pc = "ranked" /\ fault = "none"

Numerators == [i \in 1..Len(predictions) |-> predictions[i].win_prob[1]]

(* C1: for any non-empty field of entrants, the win probabilities of the
   Forecast sequence returned by predict sum to 1: they are fractions over one
   positive denominator, there is one per entrant, and their numerators add
   up to that denominator. *)
ProbabilitiesSumToOne ==
    (pc = "ranked" /\ horses # <<>>) =>
        /\ fault = "none"
        /\ Len(predictions) = Len(horses)
        /\ \A i \in 1..Len(predictions) :
              /\ predictions[i].win_prob[2] = predictions[1].win_prob[2]
              /\ predictions[i].win_prob[2] > 0
        /\ SumSeq(Numerators) = predictions[1].win_prob[2]

(* a ranked field of three entrants whose probabilities are not all equal *)
UnevenFieldRanked ==
    /\ Returned
    /\ Len(predictions) = 3
    /\ predictions[1].win_prob # predictions[3].win_prob

(* C2: the Forecast sequence returned by predict holds every entrant once
   with its composite score, is ordered non-increasing in composite score,
   and two entrants with equal composite score appear in the order of the
   input entrant list. *)
ForecastSortedStable ==
    Returned =>
        /\ Len(predictions) = Len(horses)
        /\ {predictions[i].horse : i \in 1..Len(predictions)} = 1..Len(horses)
        /\ \A i \in 1..Len(predictions) :
              predictions[i].score =
                  calculate_score(variant, horses[predictions[i].horse],
                                  race_info, horses).total
        /\ \A i, j \in 1..Len(predictions) :
              i < j =>
                  /\ predictions[i].score >= predictions[j].score
                  /\ (predictions[i].score = predictions[j].score
                         => predictions[i].horse < predictions[j].horse)

(* a ranked field in which two entrants tie and a later entrant of the input
   was moved in front of an earlier one *)
TieAndReorderRanked ==
    /\ Returned
    /\ \E i, j \in 1..Len(predictions) :
          i < j /\ predictions[i].score = predictions[j].score
    /\ \E i, j \in 1..Len(predictions) :
          i < j /\ predictions[i].horse > predictions[j].horse

(* C3: given zero entrants, the ranking engine returns an empty Forecast
   sequence and raises no fault. *)
EmptyFieldYieldsEmptyForecast ==
    (pc = "ranked" /\ horses = <<>>) => (fault = "none" /\ predictions = <<>>)

(* C5, as claimed: for any non-empty field of entrants, every Forecast's win
   probability lies strictly between 0 and 1. *)
ProbabilityStrictlyInside ==
    (pc = "ranked" /\ horses # <<>>) =>
        \A i \in 1..Len(predictions) :
            /\ 0 < predictions[i].win_prob[1]
            /\ predictions[i].win_prob[1] < predictions[i].win_prob[2]

(* C5, amended: every Forecast's win probability is greater than 0; it is
   less than 1 in a field of two or more entrants, and exactly 1 in a field
   of one entrant. *)
ProbabilityInsideUnlessAlone ==
    (pc = "ranked" /\ horses # <<>>) =>
        /\ Len(predictions) = Len(horses)
        /\ \A i \in 1..Len(predictions) :
              /\ 0 < predictions[i].win_prob[1]
              /\ Len(predictions) >= 2 =>
                     predictions[i].win_prob[1] < predictions[i].win_prob[2]
              /\ Len(predictions) = 1 =>
                     predictions[i].win_prob[1] = predictions[i].win_prob[2]

(* a ranked field of two entrants, the second with the lowest normalized
   score 0 *)
PairRanked ==
    /\ Returned
    /\ Len(predictions) = 2
    /\ predictions[2].norm_score[1] = 0
    /\ predictions[2].norm_score[2] > 0

(* C6: in the output of predict, whenever one entrant's composite score is
   strictly higher than another's, its win probability is strictly higher
   too (the two probabilities are fractions over the same denominator). *)
HigherScoreHigherProbability ==
    Returned =>
        \A i, j \in 1..Len(predictions) :
            predictions[i].score > predictions[j].score =>
                /\ predictions[i].win_prob[2] = predictions[j].win_prob[2]
                /\ predictions[i].win_prob[1] > predictions[j].win_prob[1]

(* a ranked field of three entrants with three different composite scores *)
ThreeDistinctScoresRanked ==
    /\ Returned
    /\ Len(predictions) = 3
    /\ predictions[1].score > predictions[2].score
    /\ predictions[2].score > predictions[3].score

AllScoresEqual ==
    \A i, j \in 1..Len(predictions) : predictions[i].score = predictions[j].score

(* C7: if all N >= 1 entrants have identical composite scores, every
   entrant's normalized score is 0.5 and every win probability returned by
   predict equals 1/N. *)
EqualScoresUniform ==
    (Returned /\ AllScoresEqual) =>
        \A i \in 1..Len(predictions) :
            /\ predictions[i].norm_score = <<1, 2>>
            /\ Len(predictions) * predictions[i].win_prob[1]
                   = predictions[i].win_prob[2]

(* a ranked field of three entrants that all have the same composite score *)
FlatFieldRanked ==
    /\ Returned
    /\ Len(predictions) = 3
    /\ AllScoresEqual

(* C18: for every Forecast returned by predict, the expected value equals
   the win probability times the entrant's odds when the odds are > 0 (here
   in thousandths, rounded down; it is positive and at most the odds, and
   equal to the odds for a field of one), and equals 0 when the odds are 0
   or negative. *)
ExpectedValueIsProbabilityTimesOdds ==
    Returned =>
        \A k \in 1..Len(predictions) :
            LET p == predictions[k]
                odds == horses[p.horse].odds
                thousandths == odds * (EVUnit \div OddsUnit)
            IN  /\ odds > 0 =>
                      /\ p.expected_value
                             = MulDiv(p.win_prob[1], thousandths, p.win_prob[2])
                      /\ 0 < p.expected_value
                      /\ p.expected_value <= thousandths
                      /\ Len(predictions) = 1 => p.expected_value = thousandths
                /\ odds <= 0 => p.expected_value = 0

(* a ranked field of three entrants: one with positive odds, one with odds
   not posted, one with negative odds *)
MixedOddsRanked ==
    /\ Returned
    /\ Len(horses) = 3
    /\ \E a, b, c \in 1..3 :
          horses[a].odds > 0 /\ horses[b].odds = 0 /\ horses[c].odds < 0

(* the composite scores of the Forecast sequence, as a set *)
ScoreSet == {predictions[k].score : k \in 1..Len(predictions)}

LowestScore == CHOOSE m \in ScoreSet : \A x \in ScoreSet : m <= x

HighestScore == CHOOSE m \in ScoreSet : \A x \in ScoreSet : m >= x

(* C19: for any non-empty field, every normalized score produced by predict
   lies in [0,1] and equals (score - min)/(max - min) when max > min, so
   that the first-ranked entrant has 1 and the last-ranked has 0, and equals
   0.5 for every entrant when max = min; the divisor is never zero. *)
NormalizedScoreIsMinMax ==
    (pc = "ranked" /\ horses # <<>>) =>
        /\ fault = "none"
        /\ Len(predictions) = Len(horses)
        /\ \A k \in 1..Len(predictions) :
              LET norm == predictions[k].norm_score
              IN  /\ norm[2] > 0
                  /\ 0 <= norm[1] /\ norm[1] <= norm[2]
                  /\ HighestScore > LowestScore =>
                        /\ norm[1] = predictions[k].score - LowestScore
                        /\ norm[2] = HighestScore - LowestScore
                  /\ HighestScore = LowestScore => norm = <<1, 2>>
        /\ HighestScore > LowestScore =>
              /\ predictions[1].norm_score[1] = predictions[1].norm_score[2]
              /\ predictions[Len(predictions)].norm_score[1] = 0

(* a ranked field of three entrants whose middle entrant has a normalized
   score strictly between 0 and 1 *)
MiddleEntrantBetween ==
    /\ Returned
    /\ Len(predictions) = 3
    /\ 0 < predictions[2].norm_score[1]
    /\ predictions[2].norm_score[1] < predictions[2].norm_score[2]
    /\ predictions[3].norm_score[1] = 0

(* C20: calculate_score and predict leave their inputs unchanged: across a
   call of predict the entrant list keeps its length and order, every field
   of every entrant and every attached run is unchanged and so is the race
   info; a second call on the same inputs yields the same Forecast
   sequence. *)
PredictLeavesInputsUnchanged ==
    [][/\ pc \in {"rank", "ranked"} =>
             /\ horses' = horses
             /\ race_info' = race_info
             /\ variant' = variant
       /\ pc = "ranked" => predictions' = predictions]_vars

(* predict was called twice on a field of three entrants with histories,
   which it ranks in another order than the order of the list *)
ReorderedFieldRankedTwice ==
    /\ pc = "reranked"
    /\ Len(horses) = 3
    /\ \E a \in 1..3 : horses[a].results # <<>>
    /\ \E a, b \in 1..3 : a < b /\ predictions[a].horse > predictions[b].horse

----------------------------------------------------------------------------
(* Properties of the scoring engine (SpecScore) *)

(* C4: for every entrant the entry extractor can emit, with any history the
   history extractor can emit and any field, each of the eight sub-scores
   returned by calculate_score lies in [0,100] and so does the composite. *)
SubScoresBounded ==
    pc = "scored" =>
        /\ \A f \in Factors :
              0 <= score_data.details[f] /\ score_data.details[f] <= Full
        /\ 0 <= score_data.total /\ score_data.total <= Full * 100

(* the sub-scores calculate_score computes from the history *)
HistoryFactors == {"recent", "basic", "distance", "course", "stability"}

(* C15: for an entrant with an empty history, calculate_score returns
   exactly 50 for each history-dependent sub-score (recent form, win and
   place rate, distance fit, course fit, consistency), whatever the race info
   and the rest of the field; consistency also stays 50 for any history of
   fewer than 3 runs. *)
EmptyHistoryScoresNeutral ==
    pc = "scored" =>
        /\ horses[1].results = <<>> =>
              \A f \in HistoryFactors : score_data.details[f] = Neutral
        /\ Len(horses[1].results) < 3 =>
              score_data.details.stability = Neutral

(* an entrant without history was scored in a field of three, for a race
   with a distance and a venue *)
NewcomerScoredInField ==
    /\ pc = "scored"
    /\ horses[1].results = <<>>
    /\ Len(horses) = 3
    /\ race_info.distance # 0 /\ race_info.course # <<>>
    /\ score_data.details.draw # Neutral

(* C16, as claimed: when an entrant's odds are unknown (odds = 0), the
   odds-implied sub-score returned by calculate_score is 0. *)
UnknownOddsScoreZero ==
    (pc = "scored" /\ horses[1].odds = 0) => score_data.details.odds = 0

(* C16, amended: when an entrant's odds are unknown (odds = 0), the
   odds-implied sub-score returned by calculate_score is the neutral 50. *)
UnknownOddsScoreNeutral ==
    (pc = "scored" /\ horses[1].odds = 0) => score_data.details.odds = Neutral

(* an entrant whose odds are not posted was scored, with a history *)
UnpostedOddsScored ==
    /\ pc = "scored"
    /\ horses[1].odds = 0
    /\ horses[1].results # <<>>

HasExampleFinishes ==
    /\ Len(horses[1].results) = Len(ExampleFinishes)
    /\ \A k \in 1..Len(ExampleFinishes) :
          horses[1].results[k].finish = ExampleFinishes[k]

(* C17, as claimed: an entrant whose five most recent finishes are
   1, 2, 1, 3, 2 gets a recent-form sub-score of about 93.96 (to the
   hundredth), whatever the other entrants. *)
ExampleRecentFormAsStated ==
    (pc = "scored" /\ HasExampleFinishes) =>
        Abs(score_data.details.recent - 9396) <= 1

(* C17, amended: that entrant's recent-form sub-score is the weighted sum of
   the per-run scores 100, 88, 100, 76, 88 under the weights 0.35, 0.25,
   0.2, 0.12, 0.08, which is 93.16, whatever the other entrants. *)
ExampleRecentFormIsWeightedSum ==
    (pc = "scored" /\ HasExampleFinishes) =>
        /\ score_data.details.recent
               = 100 * 35 + 88 * 25 + 100 * 20 + 76 * 12 + 88 * 8
        /\ score_data.details.recent = 9316

(* the entrant of the example was scored in a field of three *)
ExampleScoredInField ==
    /\ pc = "scored"
    /\ HasExampleFinishes
    /\ Len(horses) = 3

(* the other pipeline *)
OtherVariant == IF variant = "app" THEN "cli" ELSE "app"

(* what the other file's calculate_score returns for the scored entrant *)
OtherScoreData ==
    calculate_score(OtherVariant, horses[1], race_info, horses)

(* the sum of the eight weights of a preset, in hundredths *)
WeightTotal(w) ==
    w.recent + w.basic + w.distance + w.course + w.draw + w.odds
    + w.stability + w.weight

(* the sum over the factors of sub-score * (weight - other weight) *)
WeightedDifference(d, w, u) ==
    d.recent * (w.recent - u.recent) + d.basic * (w.basic - u.basic)
    + d.distance * (w.distance - u.distance) + d.course * (w.course - u.course)
    + d.draw * (w.draw - u.draw) + d.odds * (w.odds - u.odds)
    + d.stability * (w.stability - u.stability)
    + d.weight * (w.weight - u.weight)

(* C21: for the same entrant, race info and field, the calculate_score of
   app.py and the calculate_score of scrape_and_predict.py return identical
   values for all eight sub-scores; the two composites differ only by the
   weights applied to these sub-scores, and each file's eight weights sum to
   exactly 1.00. *)
VariantsAgreeOnSubScores ==
    pc = "scored" =>
        LET other == OtherScoreData
        IN  /\ \A f \in Factors : score_data.details[f] = other.details[f]
            /\ score_data.total - other.total
                   = WeightedDifference(score_data.details, Weights(variant),
                                        Weights(OtherVariant))
            /\ \A v \in Variants : WeightTotal(Weights(v)) = 100

(* scrape_and_predict.py scored an entrant with a history and without posted
   odds in a field of three, and its composite differs from app.py's *)
SameEntrantTwoComposites ==
    /\ pc = "scored"
    /\ variant = "cli"
    /\ Len(horses) = 3
    /\ horses[1].results # <<>>
    /\ horses[1].odds = 0
    /\ score_data.total # OtherScoreData.total

(* C22: for an entrant with k recorded runs, 1 <= k < 5, the recent-form
   sub-score uses only the first k of the fixed weights without
   renormalizing, so it is at most 100 times the sum of the first k weights
   (35 for a single run, 60 for two, 80 for three, 92 for four), which is
   its value when every run is a win. *)
RecentFormWithinPrefixWeights ==
    pc = "scored" =>
        LET results == horses[1].results
            k == Len(results)
            cap == 100 * SumSeq(Prefix(RecentWeights, k))
        IN  (1 <= k /\ k < Len(RecentWeights)) =>
                /\ score_data.details.recent <= cap
                /\ (\A n \in 1..k : results[n].finish = 1) =>
                       score_data.details.recent = cap

----------------------------------------------------------------------------
(* Properties of the entry extractor (SpecEntry) *)

Parsed == pc = "parsed" /\ fault = "none"

(* C8: in the sequence of entrants returned by parse_race_page, program
   numbers are pairwise distinct, for every input document. *)
ProgramNumbersDistinct ==
    Parsed =>
        \A i, j \in 1..Len(horses) :
            i # j => horses[i].number # horses[j].number

(* the program number a row carries: the value of its Umaban cell when that
   is a decimal number, 0 when the cell is missing or unparsable *)
RowNumber(row) ==
    IF row.umaban # NoCell /\ Len(row.umaban) > 0 /\ AllDigits(row.umaban)
    THEN int(row.umaban) ELSE 0

(* the name a row carries: the link's title, else the link's text *)
RowName(row) ==
    IF ~row.link THEN <<>> ELSE IF row.title # <<>> THEN row.title ELSE row.text

ValidRow(row) == RowName(row) # <<>> /\ RowNumber(row) >= 1

ValidRows == SelectSeq(html, ValidRow)

(* C9: parse_race_page returns exactly the entry rows that have a non-empty
   name and a program number >= 1, in document order; a row with program
   number 0 (or unparsable) or with an empty name never appears in the
   output, whatever other fields it carries. *)
EntrantsAreValidRows ==
    Parsed =>
        /\ Len(horses) = Len(ValidRows)
        /\ \A k \in 1..Len(horses) :
              /\ horses[k].number = RowNumber(ValidRows[k])
              /\ horses[k].name = RowName(ValidRows[k])
              /\ horses[k].horse_id = ParsedHorseId(ValidRows[k])
              /\ horses[k].odds = ParsedOdds(ValidRows[k])
              /\ horses[k].weight_carry = ParsedWeight(ValidRows[k])
              /\ horses[k].number >= 1
              /\ horses[k].name # <<>>

(* a document of a named row with program number 0 that carries odds and a
   weight, followed by a valid row: only the valid row was returned *)
DecorativeRowDropped ==
    /\ Parsed
    /\ Len(html) = 2
    /\ html[1].umaban = <<"0">> /\ RowName(html[1]) # <<>>
    /\ html[1].odds # Dashes
    /\ ValidRow(html[2])
    /\ Len(horses) = 1

----------------------------------------------------------------------------
(* Properties of the history extractor (SpecHistory) *)

(* a plain integer: one or more decimal digits *)
PlainInteger(text) == Len(text) > 0 /\ AllDigits(text)

Qualifies(row) == row.cells >= MinCells /\ PlainInteger(row.finish)

QualifyingRows == SelectSeq(horse_html.rows, Qualifies)

(* C10: parse_horse_history never emits a HistoricalRun for a row whose
   finish cell is not a plain integer, and emits exactly one HistoricalRun,
   in order, for each row with at least 15 cells whose finish cell is a plain
   integer, up to the cap of 20. *)
RunsAreQualifyingRows ==
    pc = "extracted" =>
        /\ Len(history) = Min(Len(QualifyingRows), HistoryCap)
        /\ \A k \in 1..Len(history) :
              history[k].finish = int(QualifyingRows[k].finish)

(* a document of one disqualified run and one clean run yielded exactly one
   HistoricalRun *)
OneDisqualifiedOneClean ==
    /\ pc = "extracted"
    /\ horse_html.table
    /\ Len(horse_html.rows) = 2
    /\ \E i \in 1..2 :
          /\ horse_html.rows[i].cells >= MinCells
          /\ horse_html.rows[i].finish = <<"X">>
    /\ \E i \in 1..2 : Qualifies(horse_html.rows[i])
    /\ Len(history) = 1

(* C11: for any document, parse_horse_history returns at most 20 runs; when
   more than 20 rows qualify (at least 15 cells and a numeric finish), the
   output is exactly the first 20 qualifying rows in document order: the cap
   is applied after the disqualified and malformed rows are filtered out. *)
HistoryCappedAfterFilter ==
    pc = "extracted" =>
        /\ Len(history) <= HistoryCap
        /\ Len(QualifyingRows) > HistoryCap =>
               /\ Len(history) = HistoryCap
               /\ \A k \in 1..HistoryCap :
                     history[k] = ParsedRun(QualifyingRows[k])

(* a document of a disqualified run followed by 21 clean runs yielded 20
   runs: rows 2 to 21 of the table *)
CapReachedPastDisqualifiedRow ==
    /\ pc = "extracted"
    /\ Len(horse_html.rows) = HistoryCap + 2
    /\ horse_html.rows[1].cells >= MinCells
    /\ ~Qualifies(horse_html.rows[1])
    /\ Len(QualifyingRows) = HistoryCap + 1
    /\ Len(history) = HistoryCap

----------------------------------------------------------------------------
(* Properties of the orchestrator (SpecMain, FairMain) *)

(* a truthy history page came back for entrant k *)
HasPage(k) ==
    \E j \in 1..Len(fetched) :
        fetched[j].page = "horse" /\ fetched[j].horse = k /\ fetched[j].ok

PageOf(k) ==
    fetched[CHOOSE j \in 1..Len(fetched) :
                fetched[j].page = "horse" /\ fetched[j].horse = k].doc

InHistoryLoop == pc \in {"loop", "history", "extracted"}

AfterHistoryLoop == pc \in {"rank", "ranked"}

(* C12, as claimed: for every entrant returned by the entry extractor, main
   assigns the results field exactly once before predict is called. *)
ResultsAssignedExactlyOnce ==
    AfterHistoryLoop => \A k \in 1..Len(horses) : assigned[k] = 1

(* C12, amended: results is assigned at most once per entrant, only inside
   the history loop (after entry extraction, before predict) and never
   afterwards: once, with parse_horse_history's output for the entrant's own
   page, when the entrant has an identifier and its page came back; not at
   all otherwise, and results is then the empty list it was created with. *)
ResultsAssignedAtMostOnce ==
    /\ ~(InHistoryLoop \/ AfterHistoryLoop) =>
           \A k \in 1..Len(assigned) : assigned[k] = 0
    /\ (InHistoryLoop \/ AfterHistoryLoop) =>
           /\ Len(assigned) = Len(horses)
           /\ AfterHistoryLoop => horse_index = Len(horses) + 1
           /\ \A k \in 1..Len(horses) :
                 /\ assigned[k] = IF k < horse_index /\ HasPage(k) THEN 1 ELSE 0
                 /\ HasPage(k) => horses[k].horse_id # <<>>
                 /\ horses[k].results =
                        IF assigned[k] = 1 THEN parse_horse_history(PageOf(k))
                        ELSE <<>>

(* main ranked two entrants: the first got the runs of its page, the second
   had no page and was never assigned *)
OneAttachedOneUntouched ==
    /\ pc = "ranked"
    /\ Len(horses) = 2
    /\ assigned = <<1, 0>>
    /\ horses[1].results # <<>>
    /\ horses[2].results = <<>>

(* C13, as claimed: in both variants, when fetching the entry page returns
   absent, no entrants are extracted from any other document, no history
   page is fetched and predict is never called. *)
AbsentEntryPageAborts ==
    (fetched # <<>> /\ ~fetched[1].ok) =>
        /\ pc \in {"returned", "fallback"}
        /\ horses = <<>>
        /\ \A j \in 1..Len(fetched) : fetched[j].page # "horse"
        /\ predictions = <<>>

(* C13, amended: when fetching the entry page returns absent, app.py's main
   returns at once; scrape_and_predict.py's main reads debug_shutuba.html
   next and returns when that cannot be read.  In both cases no entrant is
   extracted, no history page is fetched and predict is not called. *)
AbsentEntryPageAbortsUnlessFile ==
    (fetched # <<>> /\ ~fetched[1].ok) =>
        /\ variant = "app" => pc = "returned" /\ Len(fetched) = 1
        /\ variant = "cli" =>
              /\ Len(fetched) = 1 => pc = "fallback"
              /\ Len(fetched) >= 2 => fetched[2].page = "file"
        /\ (variant = "app" \/ (Len(fetched) >= 2 /\ ~fetched[2].ok)) =>
              /\ pc = "returned"
              /\ Len(fetched) <= 2
              /\ html = NoHtml
              /\ horses = <<>>
              /\ predictions = <<>>

(* scrape_and_predict.py returned after neither the entry page nor the file
   debug_shutuba.html could be had *)
NeitherPageNorFile ==
    /\ variant = "cli"
    /\ pc = "returned"
    /\ Len(fetched) = 2
    /\ ~fetched[1].ok /\ ~fetched[2].ok

(* what main has done when it is over with a ranking: an entrant without a
   page has an empty history, every entrant was visited, a page was asked
   for every entrant that has an identifier, and predict returned one
   Forecast per entrant *)
BestEffortRanking ==
    pc = "ranked" =>
        /\ fault = "none"
        /\ horse_index = Len(horses) + 1
        /\ Len(predictions) = Len(horses)
        /\ {predictions[k].horse : k \in 1..Len(predictions)} = 1..Len(horses)
        /\ \A k \in 1..Len(horses) :
              /\ ~HasPage(k) => horses[k].results = <<>>
              /\ horses[k].horse_id # <<>> =>
                    \E j \in 1..Len(fetched) :
                        fetched[j].page = "horse" /\ fetched[j].horse = k

(* C14: when the history page of an entrant is absent (or the entrant has
   no identifier), that entrant keeps an empty history, every later entrant
   is still processed, and predict is still called over the full entrant
   list and yields one Forecast per extracted entrant: once the history
   loop has started, main always reaches the ranking. *)
AbsentHistoryStillRanked ==
    /\ []BestEffortRanking
    /\ (pc = "loop") ~> (pc = "ranked")

(* main ranked three entrants of which the first had no history page and a
   later one had *)
FirstPageAbsentLaterAttached ==
    /\ pc = "ranked"
    /\ Len(horses) >= 2
    /\ horses[1].horse_id # <<>>
    /\ ~HasPage(1)
    /\ \E k \in 2..Len(horses) : assigned[k] = 1
    /\ Len(predictions) = Len(horses)

====
